---- MODULE Spec2Model ----
(***************************************************************************)
(* A model of the SOAP client of soap.go: the Envelope/Body/Fault data,    *)
(* Body.UnmarshalXML (the single-pass decoder of a Body element),          *)
(* Client.AddHeader and Client.Call.                                       *)
(*                                                                         *)
(* A thread of the user's program performs one operation at a time: a Call *)
(* on the shared Client, or xml.Unmarshal of bytes into an Envelope of its *)
(* own (as the handler of TestClient_Call does).  The bytes of a response  *)
(* are revealed token by token as the decoder pulls them; doc records what *)
(* was pulled.                                                             *)
(***************************************************************************)
EXTENDS Integers, Sequences, FiniteSets, TLC

VARIABLES client, pc, op, args, dest, envelope, http, respEnvelope, dec, ret, entry, pure

vars == <<client, pc, op, args, dest, envelope, http, respEnvelope, dec, ret, entry, pure>>

(***************************************************************************)
(* Bounds of the model.                                                    *)
(***************************************************************************)
\* AddHeader invocations on the client.
MaxHeaders == 2
\* Tokens of one document that do not end the element they are read in.
MaxTokens == 3
\* The same, for the documents served to concurrent Calls.
MaxConcTokens == 2
\* The same for the responses to a Call whose Envelope holds several Body
\* elements.
MaxBodyTokens == 4

(***************************************************************************)
(* Values.                                                                 *)
(***************************************************************************)
None == <<>>
Some(x) == <<x>>

Threads == {"t1", "t2"}

NsEnvelope == "http://schemas.xmlsoap.org/soap/envelope/"
NsApp == "test:call"

\* Character data, as sequences of characters.
Space == " "
Texts == {<<"v">>, <<Space, "f", Space>>}

errUnauthorized == [kind |-> "errUnauthorized", status |-> 0, fault |-> None]
errBody == [kind |-> "errBody", status |-> 0, fault |-> None]
NoError == [kind |-> "nil", status |-> 0, fault |-> None]
\* fmt.Errorf("soap: %s", err)
WrapError(what) == [kind |-> what, status |-> 0, fault |-> None]
\* fmt.Errorf("soap: %s (%d)", resp.Status, resp.StatusCode)
StatusError(code) == [kind |-> "status", status |-> code, fault |-> None]
FaultError(f) == [kind |-> "fault", status |-> 0, fault |-> Some(f)]

\* Errors of the decoder (xml.UnmarshalError and the errors of encoding/xml).
ErrContent == "content must be a pointer to a struct"
ErrMultiple == "found multiple elements inside SOAP body; not wrapped-document/literal WS-I compliant"
ErrSyntax == "XML syntax error"
ErrExpected == "expected element type"
ErrNotConsumed == "UnmarshalXML did not consume entire <Body> element"

(***************************************************************************)
(* Tokens.  Inside a Body element the decoder pulls start-elements (with   *)
(* the sub-tree below them: well-formed or not, and its character data),   *)
(* character data, the end-element that closes the Body, a read error, or  *)
(* (from a custom xml.TokenReader only) a nil token without an error.      *)
(* Inside the Envelope element xml.Unmarshal pulls a Body element, a child *)
(* it skips or decodes without effect on the Body (Header, other elements, *)
(* character data), the end of the Envelope, or a read error.              *)
(***************************************************************************)
Tok(kind) == [kind |-> kind, space |-> "", local |-> "", sub |-> "", data |-> <<>>]

StartElement(space, local, sub, data) ==
    [kind |-> "StartElement", space |-> space, local |-> local, sub |-> sub, data |-> data]

StartElements(spaces, locals, subs, datas) ==
    {StartElement(s, l, b, d) : s \in spaces, l \in locals, b \in subs, d \in datas}

CharData == Tok("CharData")
EndElement == Tok("EndElement")
TokenError == Tok("error")
NilToken == Tok("nil")

BodyStart == Tok("Body")
Skipped == Tok("Skipped")
EnvelopeEnd == Tok("EnvelopeEnd")
EnvelopeError == Tok("EnvelopeError")

\* The white space strings.TrimSpace removes (of it: space, tab, newline,
\* carriage return).
WhiteSpace == {Space, "\t", "\n", "\r"}

\* strings.TrimSpace
RECURSIVE TrimLeft(_)
TrimLeft(s) == IF s # <<>> /\ Head(s) \in WhiteSpace THEN TrimLeft(Tail(s)) ELSE s

RECURSIVE TrimRight(_)
TrimRight(s) ==
    IF s # <<>> /\ s[Len(s)] \in WhiteSpace THEN TrimRight(SubSeq(s, 1, Len(s) - 1)) ELSE s

TrimSpace(s) == TrimRight(TrimLeft(s))

(***************************************************************************)
(* Request values: the request type of soap_test.go:12-16 (XMLName         *)
(* test:call Request, two strings written only when non-empty), and a      *)
(* value encoding/xml has no encoding for.                                 *)
(***************************************************************************)
Value(type, attr1, attr2) == [type |-> type, Attr1 |-> attr1, Attr2 |-> attr2]
TestRequest == Value("request", <<"v">>, <<>>)
Unsupported == Value("chan", <<>>, <<>>)
NoValue == Value("none", <<>>, <<>>)

\* A character XML cannot carry (a control character such as U+0001), and
\* the character the encoder writes in its place.
Ctrl == "U+0001"
Replacement == "U+FFFD"

\* xml.EscapeText, as the encoder applies it to character data.
EscapeText(s) ==
    [i \in 1..Len(s) |-> CASE s[i] = "<" -> "&lt;"
                           [] s[i] = "&" -> "&amp;"
                           [] s[i] = Ctrl -> Replacement
                           [] OTHER -> s[i]]

\* The decoder's reading of character data: entities are resolved.
Unescape(s) ==
    [i \in 1..Len(s) |-> CASE s[i] = "&lt;" -> "<"
                           [] s[i] = "&amp;" -> "&"
                           [] OTHER -> s[i]]

\* An encoder that writes character data as it is.
MarshalUnescaped(v) ==
    IF v.type # "request" THEN [err |-> "unsupported type", element |-> Tok("none")]
    ELSE LET children == [attr1 |-> v.Attr1, attr2 |-> v.Attr2]
             present == {n \in DOMAIN children : children[n] # <<>>}
             base == StartElement(NsApp, "Request", "ok", <<>>)
         IN  [err |-> "",
              element |-> [k \in DOMAIN base \cup present |->
                              IF k \in present THEN children[k] ELSE base[k]]]

\* encoding/xml's Marshal of a request value: the element named by XMLName
\* with a child for every non-empty string (omitempty), escaped.
Marshal(v) ==
    IF v.type # "request" THEN [err |-> "unsupported type", element |-> Tok("none")]
    ELSE LET children == [attr1 |-> EscapeText(v.Attr1), attr2 |-> EscapeText(v.Attr2)]
             present == {n \in DOMAIN children : children[n] # <<>>}
             base == StartElement(NsApp, "Request", "ok", <<>>)
         IN  [err |-> "",
              element |-> [k \in DOMAIN base \cup present |->
                              IF k \in present THEN children[k] ELSE base[k]]]

(***************************************************************************)
(* The universes the inputs are drawn from: FullU for a single thread,     *)
(* ConcU for concurrent Calls.                                             *)
(***************************************************************************)
FullU ==
    [actions |-> {"", "soap.action"},
     requests |-> {TestRequest, Unsupported},
     responses |-> {"nil", "named", "any"},
     statuses |-> {200, 401, 500},
     bodies |-> {"empty", "garbage", "wrongroot", "envelope"},
     failures |-> BOOLEAN,
     starts |-> StartElements({NsEnvelope, NsApp}, {"Fault", "Response"},
                              {"ok", "malformed"}, Texts),
     others |-> {CharData},
     maxtok |-> MaxTokens]

ConcU ==
    [actions |-> {""},
     requests |-> {TestRequest},
     responses |-> {"nil", "named"},
     statuses |-> {200, 500},
     bodies |-> {"empty", "envelope"},
     failures |-> {FALSE},
     starts |-> {StartElement(NsEnvelope, "Fault", "ok", <<Space, "f", Space>>),
                 StartElement(NsApp, "Response", "ok", <<"v">>)},
     others |-> {},
     maxtok |-> MaxConcTokens]

\* The header item of the n-th AddHeader of the program: all different.
HeaderItem(n) == n
Auths == {None, Some([Username |-> "user", Password |-> "pass"])}
Url == "http://127.0.0.1/call"

\* The zero value of the caller's response variable.
DestZero == <<>>

(***************************************************************************)
(* Body.UnmarshalXML, soap.go:41-89, and the parts of encoding/xml it      *)
(* calls.                                                                  *)
(***************************************************************************)

\* A decoder that knows a Fault by its local name alone.
IsFaultByLocalName(se) == se.local = "Fault"

\* soap.go:66: the first child is a Fault when both parts of its name match.
IsFault(se) == se.space = NsEnvelope /\ se.local = "Fault"

\* A Fault element with the character data of its four children; data is
\* that of faultstring.
FaultElement(code, text, actor, detail) ==
    [kind |-> "StartElement", space |-> NsEnvelope, local |-> "Fault", sub |-> "ok",
     data |-> text, faultcode |-> code, faultactor |-> actor, detail |-> detail]

\* soap.go:95: the character data of the child called name; the empty string
\* when the element has no such child (the field keeps its zero value).
Child(se, name) == IF name \in DOMAIN se THEN se[name] ELSE <<>>

\* A Fault decoded without trimming: plain string fields.
DecodeFaultUntrimmed(se) ==
    [err |-> IF se.sub = "ok" THEN "" ELSE ErrSyntax,
     fault |-> [Code |-> Child(se, "faultcode"), Text |-> se.data,
                Actor |-> Child(se, "faultactor"), Detail |-> Child(se, "detail"),
                HTTPStatus |-> 0]]

\* soap.go:67,70 with 91-115: d.DecodeElement(b.Fault, &se) on a fresh Fault.
\* Each string field is the character data of its child, trimmed
\* (soap.go:93-101); HTTPStatus (xml:"-") is left zero.
DecodeFault(se) ==
    [err |-> IF se.sub = "ok" THEN "" ELSE ErrSyntax,
     fault |-> [Code |-> TrimSpace(Unescape(Child(se, "faultcode"))),
                Text |-> TrimSpace(Unescape(se.data)),
                Actor |-> TrimSpace(Unescape(Child(se, "faultactor"))),
                Detail |-> TrimSpace(Unescape(Child(se, "detail"))),
                HTTPStatus |-> 0]]

\* soap.go:77: d.DecodeElement(b.Content, &se).  content says what b.Content
\* points to: "discard" is Call's new(interface{}), whose element is skipped;
\* "named" a struct with an XMLName (test:call Response), which must match
\* before anything is written; "any" a struct without one; "request" the
\* request type of soap_test.go:12-16, whose fields are written from the
\* children the element has and otherwise keep their value.  A sub-tree
\* that is malformed after its data fails after the data has been written.
DecodeContent(content, cur, se) ==
    IF content = "discard"
    THEN [err |-> IF se.sub = "ok" THEN "" ELSE ErrSyntax, dest |-> cur]
    ELSE IF content = "named" /\ ~(se.space = NsApp /\ se.local = "Response")
    THEN [err |-> ErrExpected, dest |-> cur]
    ELSE IF content = "request" /\ ~(se.space = NsApp /\ se.local = "Request")
    THEN [err |-> ErrExpected, dest |-> cur]
    ELSE IF content = "request"
    THEN [err |-> IF se.sub = "ok" THEN "" ELSE ErrSyntax,
          dest |-> [Attr1 |-> IF "attr1" \in DOMAIN se THEN Unescape(se.attr1) ELSE cur.Attr1,
                    Attr2 |-> IF "attr2" \in DOMAIN se THEN Unescape(se.attr2) ELSE cur.Attr2]]
    ELSE [err |-> IF se.sub = "ok" THEN "" ELSE ErrSyntax, dest |-> Unescape(se.data)]

\* The state of one pass of the loop of soap.go:52-86.
\* how: "" while scanning, "end"/"nil" after a break, "err" after a return err.
Pass(b, consumed, dst, target, how, err) ==
    [Fault |-> b.Fault, Content |-> b.Content, consumed |-> consumed, dest |-> dst,
     target |-> target, how |-> how, err |-> err]

\* A decoder that does not look at consumed.
MultipleUnchecked(consumed) == FALSE

\* soap.go:64-65: a start-element after the single child was consumed.
Multiple(consumed) == consumed

\* A decoder that keeps the Content beside the new Fault.
NewFaultKeepingContent(b, f) == [Fault |-> Some(f), Content |-> b.Content]

\* soap.go:67-68: a new Fault is made and the Content is dropped.
NewFault(b, f) == [Fault |-> Some(f), Content |-> "nil"]

\* soap.go:63-82: a start-element.
OnStartElement(b, consumed, dst, se) ==
    IF Multiple(consumed)
    THEN Pass(b, consumed, dst, "", "err", ErrMultiple)
    ELSE IF IsFault(se)
    THEN LET r == DecodeFault(se)
         IN  IF r.err # ""
             THEN Pass(NewFault(b, r.fault), consumed, dst, "Fault", "err", r.err)
             ELSE Pass(NewFault(b, r.fault), TRUE, dst, "Fault", "", "")
    ELSE LET r == DecodeContent(b.Content, dst, se)
         IN  IF r.err # ""
             THEN Pass(b, consumed, r.dest, "Content", "err", r.err)
             ELSE Pass(b, TRUE, r.dest, "Content", "", "")

\* A decoder that takes a Body without a child for an error.
OnEndElementAfterChild(b, consumed, dst) ==
    IF consumed THEN Pass(b, consumed, dst, "", "end", "")
    ELSE Pass(b, consumed, dst, "", "err", ErrSyntax)

\* soap.go:83-84: the end-element that closes the Body, with or without a child.
OnEndElement(b, consumed, dst) == Pass(b, consumed, dst, "", "end", "")

\* soap.go:54-85: one iteration of the loop on the token just read.
LoopStep(b, consumed, dst, token) ==
    CASE token.kind = "error" -> Pass(b, consumed, dst, "", "err", ErrSyntax)
      [] token.kind = "nil" -> Pass(b, consumed, dst, "", "nil", "")
      [] token.kind = "StartElement" -> OnStartElement(b, consumed, dst, token)
      [] token.kind = "EndElement" -> OnEndElement(b, consumed, dst)
      [] OTHER -> Pass(b, consumed, dst, "", "", "")

\* xml.Unmarshal of a whole document given as its tokens: soap.go:41-89 for
\* every Body element of the Envelope, from the first token to the return.
RECURSIVE UnmarshalAlone(_, _, _, _, _)
UnmarshalAlone(b, consumed, dst, inBody, tokens) ==
    IF tokens = <<>> THEN [b |-> b, dest |-> dst, uerr |-> ""]
    ELSE LET token == Head(tokens)
             r == LoopStep(b, consumed, dst, token)
             nb == [Fault |-> r.Fault, Content |-> r.Content]
         IN  IF inBody
             THEN CASE r.how = "" -> UnmarshalAlone(nb, r.consumed, r.dest, TRUE, Tail(tokens))
                    [] r.how = "end" -> UnmarshalAlone(nb, r.consumed, r.dest, FALSE, Tail(tokens))
                    [] r.how = "nil" -> [b |-> nb, dest |-> r.dest, uerr |-> ErrNotConsumed]
                    [] OTHER -> [b |-> nb, dest |-> r.dest, uerr |-> r.err]
             ELSE CASE token = BodyStart ->
                          IF b.Content = "nil" THEN [b |-> b, dest |-> dst, uerr |-> ErrContent]
                          ELSE UnmarshalAlone(b, FALSE, dst, TRUE, Tail(tokens))
                    [] token = Skipped \/ token.kind = "Header" ->
                          UnmarshalAlone(b, consumed, dst, FALSE, Tail(tokens))
                    [] token = EnvelopeEnd -> [b |-> b, dest |-> dst, uerr |-> ""]
                    [] OTHER -> [b |-> b, dest |-> dst, uerr |-> ErrSyntax]

(***************************************************************************)
(* Fault.Error, soap.go:117-136.  Strings are sequences of characters.     *)
(***************************************************************************)
Digits == <<"0", "1", "2", "3", "4", "5", "6", "7", "8", "9">>

\* The decimal digits of a natural number.
RECURSIVE Itoa(_)
Itoa(n) == IF n < 10 THEN <<Digits[n + 1]>>
           ELSE Itoa(n \div 10) \o <<Digits[(n % 10) + 1]>>

\* fmt's %d
FormatInt(n) == IF n < 0 THEN <<"-">> \o Itoa(0 - n) ELSE Itoa(n)

\* A Fault that writes the separator of the code whether there is a code or
\* not.
ErrorWithoutCodeTest(f) ==
    IF f = None THEN <<"s", "o", "a", "p", ":", " ", "<", "n", "i", "l", ">">>
    ELSE LET err0 == f[1].Text
             err1 == f[1].Code \o <<":", " ">> \o err0
             err2 == IF f[1].Detail # <<>>
                     THEN err1 \o <<" ", "(">> \o f[1].Detail \o <<")">> ELSE err1
             err3 == IF f[1].HTTPStatus # 0
                     THEN err2 \o <<" ">> \o FormatInt(f[1].HTTPStatus) ELSE err2
         IN  <<"s", "o", "a", "p", ":", " ">> \o err3

\* soap.go:117-136; f is None for the nil pointer.
Error(f) ==
    IF f = None THEN <<"s", "o", "a", "p", ":", " ", "<", "n", "i", "l", ">">>
    ELSE LET err0 == f[1].Text
             err1 == IF f[1].Code # <<>>
                     THEN f[1].Code \o <<":", " ">> \o err0 ELSE err0
             err2 == IF f[1].Detail # <<>>
                     THEN err1 \o <<" ", "(">> \o f[1].Detail \o <<")">> ELSE err1
             err3 == IF f[1].HTTPStatus # 0
                     THEN err2 \o <<" ">> \o FormatInt(f[1].HTTPStatus) ELSE err2
         IN  <<"s", "o", "a", "p", ":", " ">> \o err3

(***************************************************************************)
(* Client.Call, soap.go:180-248: the parts that are pure.                  *)
(***************************************************************************)

\* soap.go:182-184: a nil response is replaced by new(interface{}).
ResponseTarget(response) == IF response = "nil" THEN "discard" ELSE response

\* A Call whose Header refers to the client's list itself.
RequestHeaderAliased(headers) ==
    IF Len(headers) > 0 THEN Some([Items |-> headers, array |-> "client.headers"])
    ELSE None

\* A Call that writes a Header element whatever the length of the list.
RequestHeaderAlways(headers) ==
    Some([Items |-> [i \in 1..Len(headers) |-> headers[i]], array |-> "soapHeader.Items"])

\* soap.go:187-191: the outgoing Header holds a copy of the client's items,
\* made by make and copy: an array of its own.
RequestHeader(headers) ==
    IF Len(headers) > 0
    THEN Some([Items |-> [i \in 1..Len(headers) |-> headers[i]], array |-> "soapHeader.Items"])
    ELSE None

\* soap.go:196-203: encoder.Encode(envelope).  A value encoding/xml has no
\* encoding for (a channel, a function) fails; otherwise the bytes hold the
\* Header (when present) and the Body with the request element.
Encode(env) ==
    LET m == Marshal(env.Content)
    IN  IF m.err # "" THEN [err |-> m.err, bytes |-> <<>>]
        ELSE [err |-> "",
              bytes |-> (IF env.Header = None THEN <<>>
                         ELSE <<[Tok("Header") EXCEPT !.data = env.Header[1].Items]>>)
                        \o <<BodyStart, m.element, EndElement, EnvelopeEnd>>]

\* A Call that sets the SOAPAction header only when there is an action.
NewRequestWithoutEmptyAction(c, soapAction, bytes) ==
    [method |-> "POST", url |-> c.url, body |-> bytes,
     contentType |-> "text/xml; charset=\"utf-8\"",
     soapAction |-> IF soapAction = "" THEN None ELSE Some(soapAction),
     basicAuth |-> c.auth, close |-> TRUE]

\* soap.go:205-214: the request handed to the transport.
NewRequest(c, soapAction, bytes) ==
    [method |-> "POST", url |-> c.url, body |-> bytes,
     contentType |-> "text/xml; charset=\"utf-8\"",
     soapAction |-> Some(soapAction), basicAuth |-> c.auth, close |-> TRUE]

\* A Call that looks at the status before the length of the body.
ScreenStatusFirst(status, body) ==
    IF status = 401 THEN "errUnauthorized"
    ELSE IF body = "empty" THEN "errBody"
    ELSE "decode"

\* A Call that does not look at the status before decoding.
ScreenLengthOnly(status, body) == IF body = "empty" THEN "errBody" ELSE "decode"

\* soap.go:227-234: what Call does with the bytes read, before any decoding.
Screen(status, body) ==
    IF body = "empty" THEN "errBody"
    ELSE IF status = 401 THEN "errUnauthorized"
    ELSE "decode"

\* A Call that returns the Fault as the decoder left it.
OutcomeUnstamped(uerr, b, status) ==
    IF uerr # "" THEN StatusError(status)
    ELSE IF b.Fault # None THEN FaultError(b.Fault[1])
    ELSE NoError

\* A Call that looks for a Fault before it looks at the error.
OutcomeFaultFirst(uerr, b, status) ==
    IF b.Fault # None THEN FaultError([b.Fault[1] EXCEPT !.HTTPStatus = status])
    ELSE IF uerr # "" THEN StatusError(status)
    ELSE NoError

\* A Call that takes every status from 400 on for a failure.
OutcomeStatusChecked(uerr, b, status) ==
    IF uerr # "" \/ status >= 400 THEN StatusError(status)
    ELSE IF b.Fault # None
    THEN FaultError([b.Fault[1] EXCEPT !.HTTPStatus = status])
    ELSE NoError

\* soap.go:237-247: the outcome of Call after xml.Unmarshal returned uerr.
Outcome(uerr, b, status) ==
    IF uerr # "" THEN StatusError(status)
    ELSE IF b.Fault # None
    THEN FaultError([b.Fault[1] EXCEPT !.HTTPStatus = status])
    ELSE NoError

(***************************************************************************)
(* State.                                                                  *)
(*   client        the Client: url, auth, headers (soap.go:146-151)        *)
(*   pc[p]         where thread p is in its operation                      *)
(*   op[p]         the operation of p: "Call", or "Unmarshal" of bytes     *)
(*                 into an Envelope of the thread's own                    *)
(*   args[p]       ctx ("live" until cancelled, then "done"), soapAction,  *)
(*                 request, response as passed, and target:                *)
(*                 the local response after soap.go:182-184                *)
(*   dest[p]       the value of the variable the caller's response points  *)
(*                 to                                                      *)
(*   envelope[p]   the request envelope of soap.go:186                     *)
(*   http[p]       the exchange: buffer, requests issued, status, body     *)
(*   respEnvelope[p]  the Body of the envelope decoded into                *)
(*   dec[p]        the decoder: consumed, the tokens pulled (doc), the     *)
(*                 targets of the DecodeElement calls, the Body elements   *)
(*                 entered, the error of xml.Unmarshal                     *)
(*   ret[p]        what the operation returned                             *)
(*   entry[p]      history: the client's header list when p entered Call,  *)
(*                 kept until the Call has built its envelope              *)
(*   pure          the value a pure function of the package is applied to, *)
(*                 and its result (used by the specifications of those     *)
(*                 functions only)                                         *)
(***************************************************************************)
NoHttp == [buffer |-> <<>>, requests |-> <<>>, status |-> 0, body |-> ""]
NoDec == [consumed |-> FALSE, doc |-> <<>>, decoded |-> <<>>, passes |-> 0, uerr |-> ""]
NoBody == [Fault |-> None, Content |-> "nil"]
NoPure == [stage |-> "none"]
NoArgs == [ctx |-> "live", soapAction |-> "", request |-> NoValue, response |-> "nil",
           target |-> "nil"]

Init ==
    /\ client \in [url : {Url}, auth : Auths, headers : {<<>>}]
    /\ pc = [p \in Threads |-> "idle"]
    /\ op = [p \in Threads |-> "none"]
    /\ args = [p \in Threads |-> NoArgs]
    /\ dest = [p \in Threads |-> DestZero]
    /\ envelope = [p \in Threads |-> None]
    /\ http = [p \in Threads |-> NoHttp]
    /\ respEnvelope = [p \in Threads |-> NoBody]
    /\ dec = [p \in Threads |-> NoDec]
    /\ ret = [p \in Threads |-> NoError]
    /\ entry = [p \in Threads |-> <<>>]
    /\ pure = NoPure

\* soap.go:174-177
AddHeader(header) ==
    /\ Len(client.headers) < MaxHeaders
    /\ header = HeaderItem(Len(client.headers) + 1)
    /\ client' = [client EXCEPT !.headers = Append(@, header)]
    /\ UNCHANGED <<pc, op, args, dest, envelope, http, respEnvelope, dec, ret>>
    /\ UNCHANGED <<entry, pure>>

\* soap.go:180-184: Call is entered; a nil response is replaced.
CallStart(p, U) ==
    /\ pc[p] = "idle"
    /\ \E a \in U.actions, rq \in U.requests, rs \in U.responses :
          args' = [args EXCEPT ![p] = [ctx |-> "live",
                                       soapAction |-> a, request |-> rq, response |-> rs,
                                       target |-> ResponseTarget(rs)]]
    /\ op' = [op EXCEPT ![p] = "Call"]
    /\ dest' = [dest EXCEPT ![p] = DestZero]
    /\ envelope' = [envelope EXCEPT ![p] = None]
    /\ http' = [http EXCEPT ![p] = NoHttp]
    /\ respEnvelope' = [respEnvelope EXCEPT ![p] = NoBody]
    /\ dec' = [dec EXCEPT ![p] = NoDec]
    /\ ret' = [ret EXCEPT ![p] = NoError]
    /\ pc' = [pc EXCEPT ![p] = "build"]
    /\ UNCHANGED client
    /\ entry' = [entry EXCEPT ![p] = client.headers]
    /\ UNCHANGED pure

\* soap.go:186-193: the request envelope.
CallBuild(p) ==
    /\ pc[p] = "build"
    /\ envelope' = [envelope EXCEPT ![p] =
                        Some([Header |-> RequestHeader(client.headers),
                              Content |-> args[p].request])]
    /\ pc' = [pc EXCEPT ![p] = "encode"]
    /\ UNCHANGED <<client, op, args, dest, http, respEnvelope, dec, ret>>
    /\ entry' = [entry EXCEPT ![p] = <<>>]
    /\ UNCHANGED pure

\* soap.go:194-203
CallEncode(p) ==
    /\ pc[p] = "encode"
    /\ LET r == Encode(envelope[p][1])
       IN  IF r.err # ""
           THEN /\ ret' = [ret EXCEPT ![p] = WrapError("encode")]
                /\ pc' = [pc EXCEPT ![p] = "done"]
                /\ UNCHANGED http
           ELSE /\ http' = [http EXCEPT ![p].buffer = r.bytes]
                /\ pc' = [pc EXCEPT ![p] = "send"]
                /\ UNCHANGED ret
    /\ UNCHANGED <<client, op, args, dest, envelope, respEnvelope, dec>>
    /\ UNCHANGED <<entry, pure>>

\* soap.go:205-216: the request is built and handed to the transport.
CallSend(p) ==
    /\ pc[p] = "send"
    /\ http' = [http EXCEPT ![p].requests =
                    Append(@, NewRequest(client, args[p].soapAction, http[p].buffer))]
    /\ pc' = [pc EXCEPT ![p] = "inflight"]
    /\ UNCHANGED <<client, op, args, dest, envelope, respEnvelope, dec, ret>>
    /\ UNCHANGED <<entry, pure>>

\* A Call that hands the request to the transport again when the exchange
\* failed.
CallDoRetrying(p, U) ==
    /\ pc[p] = "inflight"
    /\ \E fail \in U.failures, st \in U.statuses :
          IF fail /\ Len(http[p].requests) < 2
          THEN /\ http' = [http EXCEPT ![p].requests =
                              Append(@, NewRequest(client, args[p].soapAction, http[p].buffer))]
               /\ UNCHANGED <<ret, pc>>
          ELSE IF fail
          THEN /\ ret' = [ret EXCEPT ![p] = WrapError("transport")]
               /\ pc' = [pc EXCEPT ![p] = "done"]
               /\ UNCHANGED http
          ELSE /\ http' = [http EXCEPT ![p].status = st]
               /\ pc' = [pc EXCEPT ![p] = "readall"]
               /\ UNCHANGED ret
    /\ UNCHANGED <<client, op, args, dest, envelope, respEnvelope, dec>>
    /\ UNCHANGED <<entry, pure>>

\* A Call that hands the request to the transport without its context.
AbortedNever(ctx) == FALSE

\* soap.go:216: the request carries ctx (req.WithContext), so the transport
\* gives up the exchange, and the read of the body fails, once ctx is done.
Aborted(ctx) == ctx = "done"

\* The caller (or a deadline) cancels the context of a Call under way.
Cancel(p) ==
    /\ op[p] = "Call"
    /\ pc[p] \notin {"idle", "done"}
    /\ args[p].ctx = "live"
    /\ args' = [args EXCEPT ![p].ctx = "done"]
    /\ UNCHANGED <<client, pc, op, dest, envelope, http, respEnvelope, dec, ret>>
    /\ UNCHANGED <<entry, pure>>

\* soap.go:216-219: httpClient.Do returns an error or a response; an error
\* when the context is done.
CallDo(p, U) ==
    /\ pc[p] = "inflight"
    /\ \E fail \in (IF Aborted(args[p].ctx) THEN {TRUE} ELSE U.failures),
          st \in U.statuses :
          IF fail
          THEN /\ ret' = [ret EXCEPT ![p] = WrapError("transport")]
               /\ pc' = [pc EXCEPT ![p] = "done"]
               /\ UNCHANGED http
          ELSE /\ http' = [http EXCEPT ![p].status = st]
               /\ pc' = [pc EXCEPT ![p] = "readall"]
               /\ UNCHANGED ret
    /\ UNCHANGED <<client, op, args, dest, envelope, respEnvelope, dec>>
    /\ UNCHANGED <<entry, pure>>

\* soap.go:222-236: the body is read (the read fails when the context is
\* done) and screened; respEnvelope is made.
CallReadAll(p, U) ==
    /\ pc[p] = "readall"
    /\ \E fail \in (IF Aborted(args[p].ctx) THEN {TRUE} ELSE U.failures),
          b \in U.bodies :
          IF fail
          THEN /\ ret' = [ret EXCEPT ![p] = WrapError("read")]
               /\ pc' = [pc EXCEPT ![p] = "done"]
               /\ UNCHANGED <<http, respEnvelope>>
          ELSE /\ http' = [http EXCEPT ![p].body = b]
               /\ LET s == Screen(http[p].status, b)
                  IN  CASE s = "errBody" ->
                              /\ ret' = [ret EXCEPT ![p] = errBody]
                              /\ pc' = [pc EXCEPT ![p] = "done"]
                              /\ UNCHANGED respEnvelope
                        [] s = "errUnauthorized" ->
                              /\ ret' = [ret EXCEPT ![p] = errUnauthorized]
                              /\ pc' = [pc EXCEPT ![p] = "done"]
                              /\ UNCHANGED respEnvelope
                        [] OTHER ->
                              /\ respEnvelope' = [respEnvelope EXCEPT ![p] =
                                     [Fault |-> None, Content |-> args[p].target]]
                              /\ pc' = [pc EXCEPT ![p] = "unmarshal"]
                              /\ UNCHANGED ret
    /\ UNCHANGED <<client, op, args, dest, envelope, dec>>
    /\ UNCHANGED <<entry, pure>>

\* soap_test.go:53-55: a thread unmarshals bytes into an Envelope of its own,
\* whose Body it has set up: Content nil or a pointer, Fault unset or not.
PresetFault == [Code |-> <<>>, Text |-> <<"p">>, Actor |-> <<>>, Detail |-> <<>>, HTTPStatus |-> 0]

UnmarshalStart(p, U) ==
    /\ pc[p] = "idle"
    /\ \E c \in {"nil", "named", "any"}, f \in {None, Some(PresetFault)}, b \in U.bodies :
          /\ respEnvelope' = [respEnvelope EXCEPT ![p] = [Fault |-> f, Content |-> c]]
          /\ http' = [http EXCEPT ![p] = [NoHttp EXCEPT !.body = b]]
    /\ op' = [op EXCEPT ![p] = "Unmarshal"]
    /\ args' = [args EXCEPT ![p] = NoArgs]
    /\ dest' = [dest EXCEPT ![p] = DestZero]
    /\ envelope' = [envelope EXCEPT ![p] = None]
    /\ dec' = [dec EXCEPT ![p] = NoDec]
    /\ ret' = [ret EXCEPT ![p] = NoError]
    /\ pc' = [pc EXCEPT ![p] = "unmarshal"]
    /\ UNCHANGED client
    /\ UNCHANGED <<entry, pure>>

\* soap.go:237, encoding/xml: xml.Unmarshal reads the root element, which
\* must be an Envelope of the envelope namespace.
UnmarshalRoot(p) ==
    /\ pc[p] = "unmarshal"
    /\ IF http[p].body = "envelope"
       THEN /\ pc' = [pc EXCEPT ![p] = "envelope"]
            /\ UNCHANGED dec
       ELSE /\ dec' = [dec EXCEPT ![p].uerr =
                          IF http[p].body = "wrongroot" THEN ErrExpected ELSE ErrSyntax]
            /\ pc' = [pc EXCEPT ![p] = "unmarshalled"]
    /\ UNCHANGED <<client, op, args, dest, envelope, http, respEnvelope, ret>>
    /\ UNCHANGED <<entry, pure>>

\* The tokens pulled so far that did not end the element they were read in.
Pulled(doc) ==
    Cardinality({i \in 1..Len(doc) :
                    doc[i].kind \in {"Body", "Skipped", "StartElement", "CharData"}})

\* encoding/xml, the children of the Envelope: a Body element is handed to
\* Body.UnmarshalXML (each one of them), anything else is passed over.
EnvelopeToken(p, U) ==
    /\ pc[p] = "envelope"
    /\ \E token \in {EnvelopeEnd, EnvelopeError} \cup
                     (IF Pulled(dec[p].doc) < U.maxtok
                      THEN {BodyStart} \cup {Skipped : x \in U.others} ELSE {}) :
          /\ dec' = [dec EXCEPT ![p].doc = Append(@, token),
                                ![p].passes = IF token = BodyStart THEN @ + 1 ELSE @,
                                ![p].uerr = IF token = EnvelopeError THEN ErrSyntax ELSE @]
          /\ pc' = [pc EXCEPT ![p] =
                       CASE token = BodyStart -> "UnmarshalXML"
                         [] token = Skipped -> "envelope"
                         [] OTHER -> "unmarshalled"]
    /\ UNCHANGED <<client, op, args, dest, envelope, http, respEnvelope, ret>>
    /\ UNCHANGED <<entry, pure>>

\* soap.go:41-50: Body.UnmarshalXML is entered.
UnmarshalXML(p) ==
    /\ pc[p] = "UnmarshalXML"
    /\ IF respEnvelope[p].Content = "nil"
       THEN /\ dec' = [dec EXCEPT ![p].uerr = ErrContent]
            /\ pc' = [pc EXCEPT ![p] = "unmarshalled"]
       ELSE /\ dec' = [dec EXCEPT ![p].consumed = FALSE]
            /\ pc' = [pc EXCEPT ![p] = "loop"]
    /\ UNCHANGED <<client, op, args, dest, envelope, http, respEnvelope, ret>>
    /\ UNCHANGED <<entry, pure>>

\* soap.go:52-88: one token of the Body is read and handled.  After a return
\* of nil, encoding/xml checks that the Body element was consumed to its end.
Loop(p, U) ==
    /\ pc[p] = "loop"
    /\ \E token \in {EndElement, TokenError} \cup
                     (IF op[p] = "Unmarshal" THEN {NilToken} ELSE {}) \cup
                     (IF Pulled(dec[p].doc) < U.maxtok THEN U.starts \cup U.others ELSE {}) :
          LET r == LoopStep(respEnvelope[p], dec[p].consumed, dest[p], token)
          IN  /\ respEnvelope' = [respEnvelope EXCEPT ![p] =
                                      [Fault |-> r.Fault, Content |-> r.Content]]
              /\ dest' = [dest EXCEPT ![p] = r.dest]
              /\ dec' = [dec EXCEPT ![p].consumed = r.consumed,
                                    ![p].doc = Append(@, token),
                                    ![p].decoded = IF r.target = "" THEN @
                                                   ELSE Append(@, r.target),
                                    ![p].uerr = CASE r.how = "err" -> r.err
                                                  [] r.how = "nil" -> ErrNotConsumed
                                                  [] OTHER -> @]
              /\ pc' = [pc EXCEPT ![p] = CASE r.how = "" -> "loop"
                                           [] r.how = "end" -> "envelope"
                                           [] OTHER -> "unmarshalled"]
    /\ UNCHANGED <<client, op, args, envelope, http, ret>>
    /\ UNCHANGED <<entry, pure>>

\* A Call whose respEnvelope is one variable shared by all Calls.
CallReturnShared(p) ==
    /\ pc[p] = "unmarshalled"
    /\ op[p] = "Call"
    /\ LET out == Outcome(dec[p].uerr, respEnvelope["t1"], http[p].status)
       IN  /\ ret' = [ret EXCEPT ![p] = out]
           /\ respEnvelope' = IF out.kind = "fault"
                              THEN [respEnvelope EXCEPT !["t1"].Fault = out.fault]
                              ELSE respEnvelope
    /\ pc' = [pc EXCEPT ![p] = "done"]
    /\ UNCHANGED <<client, op, args, dest, envelope, http, dec>>
    /\ UNCHANGED <<entry, pure>>

\* soap.go:237-247: xml.Unmarshal has returned to Call.
CallReturn(p) ==
    /\ pc[p] = "unmarshalled"
    /\ op[p] = "Call"
    /\ LET out == Outcome(dec[p].uerr, respEnvelope[p], http[p].status)
       IN  /\ ret' = [ret EXCEPT ![p] = out]
           /\ respEnvelope' = IF out.kind = "fault"
                              THEN [respEnvelope EXCEPT ![p].Fault = out.fault]
                              ELSE respEnvelope
    /\ pc' = [pc EXCEPT ![p] = "done"]
    /\ UNCHANGED <<client, op, args, dest, envelope, http, dec>>
    /\ UNCHANGED <<entry, pure>>

\* soap_test.go:55-57: xml.Unmarshal has returned to the thread that called it.
UnmarshalReturn(p) ==
    /\ pc[p] = "unmarshalled"
    /\ op[p] = "Unmarshal"
    /\ ret' = [ret EXCEPT ![p] = IF dec[p].uerr = "" THEN NoError ELSE WrapError(dec[p].uerr)]
    /\ pc' = [pc EXCEPT ![p] = "done"]
    /\ UNCHANGED <<client, op, args, dest, envelope, http, respEnvelope, dec>>
    /\ UNCHANGED <<entry, pure>>

\* One thread that Calls or unmarshals, and AddHeader at any time.
Next ==
    \/ \E h \in 1..MaxHeaders : AddHeader(h)
    \/ CallStart("t1", FullU)
    \/ CallBuild("t1")
    \/ CallEncode("t1")
    \/ CallSend("t1")
    \/ CallDo("t1", FullU)
    \/ CallReadAll("t1", FullU)
    \/ UnmarshalStart("t1", FullU)
    \/ UnmarshalRoot("t1")
    \/ EnvelopeToken("t1", FullU)
    \/ UnmarshalXML("t1")
    \/ Loop("t1", FullU)
    \/ CallReturn("t1")
    \/ UnmarshalReturn("t1")

Spec == Init /\ [][Next]_vars

\* The header lists the program can have built: the first n items.
HeaderLists == {[i \in 1..n |-> HeaderItem(i)] : n \in 0..MaxHeaders}

\* Every AddHeader has completed before the first Call starts.
InitConc ==
    /\ client \in [url : {Url}, auth : {None}, headers : HeaderLists]
    /\ pc = [p \in Threads |-> "idle"]
    /\ op = [p \in Threads |-> "none"]
    /\ args = [p \in Threads |-> NoArgs]
    /\ dest = [p \in Threads |-> DestZero]
    /\ envelope = [p \in Threads |-> None]
    /\ http = [p \in Threads |-> NoHttp]
    /\ respEnvelope = [p \in Threads |-> NoBody]
    /\ dec = [p \in Threads |-> NoDec]
    /\ ret = [p \in Threads |-> NoError]
    /\ entry = [p \in Threads |-> <<>>]
    /\ pure = NoPure

\* The steps of a Call of thread p.
CallStep(p, U) ==
    \/ CallStart(p, U)
    \/ CallBuild(p)
    \/ CallEncode(p)
    \/ CallSend(p)
    \/ CallDo(p, U)
    \/ CallReadAll(p, U)
    \/ UnmarshalRoot(p)
    \/ EnvelopeToken(p, U)
    \/ UnmarshalXML(p)
    \/ Loop(p, U)
    \/ CallReturn(p)

\* Two threads Call concurrently on one Client.
NextConc == \E p \in Threads : CallStep(p, ConcU)

SpecConc == InitConc /\ [][NextConc]_vars

(***************************************************************************)
(* A Call whose context may be cancelled at any moment.  The server may    *)
(* never answer, so no step of the exchange is fair while the context is   *)
(* live; once it is done the transport gives the exchange up (net/http     *)
(* watches the context of the request while it sends and while the body is *)
(* read), which is the one fairness assumed.                               *)
(***************************************************************************)
CancelU ==
    [actions |-> {"soap.action"},
     requests |-> {TestRequest},
     responses |-> {"named"},
     statuses |-> {200, 500},
     bodies |-> {"empty", "envelope"},
     failures |-> BOOLEAN,
     starts |-> {StartElement(NsEnvelope, "Fault", "ok", <<"v">>),
                 StartElement(NsApp, "Response", "ok", <<"v">>)},
     others |-> {},
     maxtok |-> MaxConcTokens]

\* The transport gives up the exchange of a request whose context is done.
Abort(p, U) ==
    /\ Aborted(args[p].ctx)
    /\ CallDo(p, U) \/ CallReadAll(p, U)

NextCancel ==
    \/ CallStep("t1", CancelU)
    \/ Cancel("t1")

SpecCancel == Init /\ [][NextCancel]_vars /\ WF_vars(Abort("t1", CancelU))

(***************************************************************************)
(* Faults on their own: a Fault the program has made (soap_test.go:112-115)*)
(* or the nil pointer is formatted by Error; a Fault element is decoded    *)
(* (soap.go:70), stamped with the status of the response (soap.go:244) and *)
(* formatted.                                                              *)
(***************************************************************************)
Codes == {<<>>, <<"c", "o", "d", "e">>}
FaultTexts == {<<>>, <<"t", "e", "x", "t">>, <<"a", " ", "b">>}
Actors == {<<>>, <<"a", "c", "t", "o", "r">>}
Details == {<<>>, <<"d", "e", "t", "a", "i", "l">>}
Statuses == {0 - 1, 0, 200, 500}

FaultValues ==
    {[Code |-> c, Text |-> t, Actor |-> a, Detail |-> d, HTTPStatus |-> s] :
        c \in Codes, t \in FaultTexts, a \in Actors, d \in Details, s \in Statuses}

\* Character data as a server writes it: plain, indented, on lines of its own.
RawTexts == {<<>>, <<Space>>, <<"t">>, <<"\n", Space, "t", "\n">>, <<"t", Space, "x", "\t">>,
             <<Space, Space, "f", "a", "u", "l", "t", Space, "t", "e", "x", "t">>}
RawCodes == {<<>>, <<"c">>, <<Space, "c", "\r", "\n">>}
RawActors == {<<>>, <<"\t", "a">>}
RawDetails == {<<>>, <<"\n", Space, Space>>, <<"d", Space>>}

FaultElements ==
    {FaultElement(c, t, a, d) : c \in RawCodes, t \in RawTexts, a \in RawActors, d \in RawDetails}

Made(f) == [stage |-> "value", elem |-> None, fault |-> f, text |-> <<>>]
Raw(e) == [stage |-> "raw", elem |-> Some(e), fault |-> None, text |-> <<>>]

InitFault ==
    /\ client = [url |-> Url, auth |-> None, headers |-> <<>>]
    /\ pc = [p \in Threads |-> "idle"]
    /\ op = [p \in Threads |-> "none"]
    /\ args = [p \in Threads |-> NoArgs]
    /\ dest = [p \in Threads |-> DestZero]
    /\ envelope = [p \in Threads |-> None]
    /\ http = [p \in Threads |-> NoHttp]
    /\ respEnvelope = [p \in Threads |-> NoBody]
    /\ dec = [p \in Threads |-> NoDec]
    /\ ret = [p \in Threads |-> NoError]
    /\ entry = [p \in Threads |-> <<>>]
    /\ pure \in {Made(None)} \cup {Made(Some(f)) : f \in FaultValues}
                \cup {Raw(e) : e \in FaultElements}

\* soap.go:70: the Fault element is decoded into a fresh Fault.
DecodeFaultStep ==
    /\ pure.stage = "raw"
    /\ pure' = [pure EXCEPT !.stage = "decoded",
                            !.fault = Some(DecodeFault(pure.elem[1]).fault)]
    /\ UNCHANGED <<client, pc, op, args, dest, envelope, http, respEnvelope, dec, ret, entry>>

\* soap.go:243-245: Call stamps the Fault with the status of the response.
StampStep ==
    /\ pure.stage = "decoded"
    /\ \E status \in {200, 500} :
          pure' = [pure EXCEPT !.stage = "value",
                               !.fault = Some([pure.fault[1] EXCEPT !.HTTPStatus = status])]
    /\ UNCHANGED <<client, pc, op, args, dest, envelope, http, respEnvelope, dec, ret, entry>>

\* soap.go:117-136: the caller formats the error.
ErrorStep ==
    /\ pure.stage = "value"
    /\ pure' = [pure EXCEPT !.stage = "text", !.text = Error(pure.fault)]
    /\ UNCHANGED <<client, pc, op, args, dest, envelope, http, respEnvelope, dec, ret, entry>>

NextFault == DecodeFaultStep \/ StampStep \/ ErrorStep

SpecFault == InitFault /\ [][NextFault]_vars

(***************************************************************************)
(* The round trip of soap_test.go:53-65: a request value is serialized as  *)
(* the Content of an Envelope (soap.go:193-203) and the bytes are          *)
(* unmarshalled into an Envelope whose Content points to a variable of the *)
(* request type, fresh or used before.                                     *)
(***************************************************************************)
RoundTexts == {<<>>, <<"v">>, <<Space, "v", Space>>, <<"a", "<", "b", "&">>, <<"&", "l", "t", ";">>,
               <<"v", Ctrl>>}
RoundValues ==
    {Value("request", a1, a2) : a1 \in RoundTexts, a2 \in {<<>>, <<"w">>}} \cup {Unsupported}
RequestZero == [Attr1 |-> <<>>, Attr2 |-> <<>>]
RequestUsed == [Attr1 |-> <<"o", "l", "d">>, Attr2 |-> <<>>]

InitRound ==
    /\ client = [url |-> Url, auth |-> None, headers |-> <<>>]
    /\ pc = [p \in Threads |-> "idle"]
    /\ op = [p \in Threads |-> "none"]
    /\ args = [p \in Threads |-> NoArgs]
    /\ dest = [p \in Threads |-> DestZero]
    /\ envelope = [p \in Threads |-> None]
    /\ http = [p \in Threads |-> NoHttp]
    /\ respEnvelope = [p \in Threads |-> NoBody]
    /\ dec = [p \in Threads |-> NoDec]
    /\ ret = [p \in Threads |-> NoError]
    /\ entry = [p \in Threads |-> <<>>]
    /\ pure \in [stage : {"value"}, value : RoundValues,
                 header : {RequestHeader(<<>>), RequestHeader(<<HeaderItem(1)>>)},
                 into : {RequestZero, RequestUsed}, dest : {RequestZero},
                 bytes : {<<>>}, fault : {None}, err : {""}]

\* soap.go:193-203: the envelope with the value as Content is encoded.
MarshalStep ==
    /\ pure.stage = "value"
    /\ LET r == Encode([Header |-> pure.header, Content |-> pure.value])
       IN  pure' = [pure EXCEPT !.stage = IF r.err = "" THEN "bytes" ELSE "failed",
                                !.bytes = r.bytes, !.err = r.err]
    /\ UNCHANGED <<client, pc, op, args, dest, envelope, http, respEnvelope, dec, ret, entry>>

\* soap_test.go:53-55: the bytes are decoded into an Envelope whose Content
\* points to the destination.
UnmarshalStep ==
    /\ pure.stage = "bytes"
    /\ LET u == UnmarshalAlone([Fault |-> None, Content |-> "request"], FALSE, pure.into,
                               FALSE, pure.bytes)
       IN  pure' = [pure EXCEPT !.stage = "decoded", !.dest = u.dest,
                                !.fault = u.b.Fault, !.err = u.uerr]
    /\ UNCHANGED <<client, pc, op, args, dest, envelope, http, respEnvelope, dec, ret, entry>>

NextRound == MarshalStep \/ UnmarshalStep

SpecRound == InitRound /\ [][NextRound]_vars

(***************************************************************************)
(* A Call answered with an Envelope of several Body elements, each with a  *)
(* Fault, a Response or nothing in it.                                     *)
(***************************************************************************)
BodiesU ==
    [actions |-> {"soap.action"},
     requests |-> {TestRequest},
     responses |-> {"nil", "named"},
     statuses |-> {200, 401},
     bodies |-> {"empty", "envelope"},
     failures |-> {FALSE},
     starts |-> {StartElement(NsEnvelope, "Fault", "ok", <<"v">>),
                 StartElement(NsApp, "Response", "ok", <<"v">>)},
     others |-> {},
     maxtok |-> MaxBodyTokens]

NextBodies == CallStep("t1", BodiesU)

SpecBodies == Init /\ [][NextBodies]_vars

(***************************************************************************)
(* The claims.                                                             *)
(***************************************************************************)
Max(S) == CHOOSE x \in S : \A y \in S : y <= x

\* The tokens pulled since the Body element entered last.
LastPass(doc) ==
    LET bodies == {i \in 1..Len(doc) : doc[i].kind = "Body"}
    IN  IF bodies = {} THEN <<>> ELSE SubSeq(doc, Max(bodies) + 1, Len(doc))

StartsIn(tokens) == {i \in 1..Len(tokens) : tokens[i].kind = "StartElement"}

\* Thread p is in a Call whose response reached xml.Unmarshal.
Decoding(p) ==
    /\ op[p] = "Call"
    /\ http[p].body \notin {"", "empty"}
    /\ http[p].status # 401

\* C1: a pass of Body.UnmarshalXML in which a second start-element arrives
\* after the first child was consumed ends with the error "found multiple
\* elements inside SOAP body", whatever the two elements are, and the
\* operation never ends without an error.
C1_MultipleElementsRejected ==
    \A p \in Threads :
        Cardinality(StartsIn(LastPass(dec[p].doc))) >= 2 =>
            /\ pc[p] \in {"unmarshalled", "done"}
            /\ dec[p].uerr = ErrMultiple
            /\ pc[p] = "done" => ret[p].kind \notin {"nil", "fault"}

C1_Witness ==
    \E p \in Threads :
        LET pass == LastPass(dec[p].doc)
        IN  /\ Cardinality(StartsIn(pass)) = 2
            /\ IsFault(pass[1])
            /\ ~IsFault(pass[2])
            /\ op[p] = "Call"
            /\ pc[p] = "done"
            /\ ret[p] = StatusError(http[p].status)

\* C3: a Call whose response body has length zero returns errBody whatever
\* the status is, 401 included, and nothing of the response is decoded.
C3_EmptyBodyFirst ==
    \A p \in Threads :
        op[p] = "Call" /\ http[p].body = "empty" =>
            /\ pc[p] = "done"
            /\ ret[p] = errBody
            /\ dec[p] = NoDec
            /\ dest[p] = DestZero

C3_Witness ==
    \E p \in Threads :
        /\ op[p] = "Call"
        /\ http[p].body = "empty"
        /\ http[p].status = 401
        /\ ret[p] = errBody

\* C4: a Call whose response has status 401 and a body that is not empty
\* returns errUnauthorized, also when the body is no XML; the decoder is
\* never run on it, so neither a Fault nor a decode error is returned.
C4_UnauthorizedBeforeDecoding ==
    \A p \in Threads :
        op[p] = "Call" /\ http[p].status = 401 /\ http[p].body \notin {"", "empty"} =>
            /\ pc[p] = "done"
            /\ ret[p] = errUnauthorized
            /\ dec[p] = NoDec
            /\ respEnvelope[p] = NoBody
            /\ dest[p] = DestZero

C4_Witness ==
    \E p \in Threads :
        /\ op[p] = "Call"
        /\ http[p].status = 401
        /\ http[p].body = "garbage"
        /\ ret[p] = errUnauthorized

Last(seq) == seq[Len(seq)]

Both(b) == b.Fault # None /\ b.Content # "nil"

\* C2: the Body of a Call never holds a Fault and a Content together; a step
\* of a pass of Body.UnmarshalXML that starts without both never ends with
\* both; the Fault is set only by the step that drops the Content; and the
\* destination is decoded into (and changed) only by the step that reads the
\* first child of the Body, when that child is no Fault.
C2_FaultOrContent ==
    /\ [](\A p \in Threads : op[p] = "Call" => ~Both(respEnvelope[p]))
    /\ [][\A p \in Threads :
            pc[p] \in {"UnmarshalXML", "loop"} =>
               /\ ~Both(respEnvelope[p]) => ~Both(respEnvelope'[p])
               /\ respEnvelope'[p].Fault # respEnvelope[p].Fault =>
                     /\ respEnvelope'[p].Fault # None
                     /\ respEnvelope'[p].Content = "nil"
               /\ dest'[p] # dest[p] =>
                     /\ dec'[p].decoded = Append(dec[p].decoded, "Content")
               /\ (dec'[p].decoded # dec[p].decoded /\ Last(dec'[p].decoded) = "Content") =>
                     /\ Last(dec'[p].doc).kind = "StartElement"
                     /\ ~IsFault(Last(dec'[p].doc))
                     /\ Cardinality(StartsIn(LastPass(dec'[p].doc))) = 1
                     /\ respEnvelope'[p] = respEnvelope[p]]_vars

C2_Witness ==
    \E p \in Threads :
        /\ op[p] = "Call"
        /\ args[p].response = "named"
        /\ pc[p] = "envelope"
        /\ respEnvelope[p].Fault # None
        /\ respEnvelope[p].Content = "nil"
        /\ dest[p] = DestZero

\* The start-elements of doc that are Faults.
FaultsIn(doc) == {i \in StartsIn(doc) : IsFault(doc[i])}

\* C5: while a Call decodes, the HTTPStatus of a Fault is zero; when
\* xml.Unmarshal succeeds on a response whose Body's first child is a Fault,
\* Call returns that Fault with HTTPStatus equal to the status of the
\* response; and HTTPStatus is written only by the step of Call that
\* follows the decoding.
C5_FaultStamped ==
    /\ [](\A p \in Threads :
            op[p] = "Call" =>
               /\ (pc[p] # "done" /\ respEnvelope[p].Fault # None) =>
                     respEnvelope[p].Fault[1].HTTPStatus = 0
               /\ (pc[p] = "done" /\ dec[p].uerr = "" /\ FaultsIn(dec[p].doc) # {}) =>
                     /\ \E i \in FaultsIn(dec[p].doc) :
                           ret[p] = FaultError([DecodeFault(dec[p].doc[i]).fault
                                                   EXCEPT !.HTTPStatus = http[p].status])
                     /\ respEnvelope[p].Fault = ret[p].fault
               /\ (pc[p] = "done" /\ ret[p].kind = "fault") =>
                     /\ dec[p].uerr = ""
                     /\ ret[p].fault[1].HTTPStatus = http[p].status)
    /\ [][\A p \in Threads :
            (/\ op[p] = "Call"
             /\ op'[p] = "Call"
             /\ respEnvelope'[p].Fault # None
             /\ respEnvelope'[p].Fault[1].HTTPStatus # 0) =>
               \/ respEnvelope'[p] = respEnvelope[p]
               \/ /\ pc[p] = "unmarshalled"
                  /\ pc'[p] = "done"
                  /\ respEnvelope[p].Fault # None
                  /\ respEnvelope[p].Fault[1].HTTPStatus = 0]_vars

C5_Witness ==
    \E p \in Threads :
        /\ op[p] = "Call"
        /\ pc[p] = "done"
        /\ http[p].status = 500
        /\ ret[p].kind = "fault"
        /\ ret[p].fault[1].HTTPStatus = 500
        /\ ret[p].fault[1].Text = <<"f">>

\* C6: when xml.Unmarshal fails on the response of a Call (malformed XML,
\* several elements in the Body, a Fault or content sub-tree that does not
\* decode), Call returns the error made of the status, never a Fault, also
\* when a Fault had been found before the failure.
C6_DecodeFailureIsStatusError ==
    \A p \in Threads :
        (Decoding(p) /\ pc[p] = "done" /\ dec[p].uerr # "") =>
            /\ ret[p] = StatusError(http[p].status)
            /\ ret[p].fault = None

C6_Witness ==
    \E p \in Threads :
        /\ Decoding(p)
        /\ pc[p] = "done"
        /\ dec[p].uerr = ErrMultiple
        /\ respEnvelope[p].Fault # None
        /\ ret[p] = StatusError(500)

\* The Body elements of doc have no child, and doc has no read error.
Void(doc) ==
    /\ \E i \in 1..Len(doc) : doc[i].kind = "Body"
    /\ \A i \in 1..Len(doc) : doc[i].kind \notin {"StartElement", "error", "EnvelopeError", "nil"}

\* C7: when the Body of the response of a Call has no child, the decoder
\* stops at the end-element of the Body without an error, with Fault unset
\* and nothing decoded, and Call returns no error and leaves the destination
\* as it was.
C7_VoidResponse ==
    \A p \in Threads :
        (op[p] = "Call" /\ Void(dec[p].doc)) =>
            /\ dec[p].uerr = ""
            /\ dec[p].decoded = <<>>
            /\ respEnvelope[p] = [Fault |-> None, Content |-> args[p].target]
            /\ dest[p] = DestZero
            /\ Last(dec[p].doc) = EndElement => pc[p] = "envelope"
            /\ pc[p] = "done" => ret[p] = NoError

C7_Witness ==
    \E p \in Threads :
        /\ op[p] = "Call"
        /\ dec[p].doc = <<BodyStart, EndElement, EnvelopeEnd>>
        /\ args[p].response = "nil"
        /\ pc[p] = "done"
        /\ ret[p] = NoError

\* C8: Body.UnmarshalXML entered with a nil Content fails with the error
\* "content must be a pointer to a struct" before it reads a token, and a
\* Call never gets this error for the Body of its response.
C8_ContentRequired ==
    \A p \in Threads :
        /\ dec[p].uerr = ErrContent =>
              /\ Last(dec[p].doc) = BodyStart
              /\ respEnvelope[p].Content = "nil"
        /\ op[p] = "Call" => dec[p].uerr # ErrContent

(***************************************************************************)
(* A Call run alone, soap.go:180-248 from its first line to its return, on *)
(* a client c with the arguments a, when the transport answers with status *)
(* (0: Do failed) and body ("": ReadAll failed) and the document read is   *)
(* doc.                                                                    *)
(***************************************************************************)
CallAlone(c, a, status, body, doc) ==
    LET e == Encode([Header |-> RequestHeader(c.headers), Content |-> a.request])
        sent == <<NewRequest(c, a.soapAction, e.bytes)>>
        b == [Fault |-> None, Content |-> ResponseTarget(a.response)]
        u == IF body = "envelope" THEN UnmarshalAlone(b, FALSE, DestZero, FALSE, doc)
             ELSE [b |-> b, dest |-> DestZero,
                   uerr |-> IF body = "wrongroot" THEN ErrExpected ELSE ErrSyntax]
    IN  IF e.err # ""
        THEN [ret |-> WrapError("encode"), dest |-> DestZero, requests |-> <<>>]
        ELSE IF status = 0
        THEN [ret |-> WrapError("transport"), dest |-> DestZero, requests |-> sent]
        ELSE IF body = ""
        THEN [ret |-> WrapError("read"), dest |-> DestZero, requests |-> sent]
        ELSE IF Screen(status, body) = "errBody"
        THEN [ret |-> errBody, dest |-> DestZero, requests |-> sent]
        ELSE IF Screen(status, body) = "errUnauthorized"
        THEN [ret |-> errUnauthorized, dest |-> DestZero, requests |-> sent]
        ELSE [ret |-> Outcome(u.uerr, u.b, status), dest |-> u.dest, requests |-> sent]

\* What belongs to the Call of thread p alone.
Own(p) == <<pc[p], op[p], args[p], dest[p], envelope[p], http[p], respEnvelope[p], dec[p], ret[p]>>

\* C9: when two Calls on one Client, started after the last AddHeader, are
\* interleaved in any way, each returns what it returns when run alone on
\* the same arguments and the same response, with the same value in its
\* destination and the same request sent; a step of one Call changes
\* nothing that belongs to the other, and no step changes the client.
C9_ConcurrentCallsIsolated ==
    /\ [](\A p \in Threads :
            pc[p] = "done" =>
               LET alone == CallAlone(client, args[p], http[p].status, http[p].body,
                                      dec[p].doc)
               IN  /\ ret[p] = alone.ret
                   /\ dest[p] = alone.dest
                   /\ http[p].requests = alone.requests)
    /\ [][/\ client' = client
          /\ \A p, q \in Threads : (p # q /\ Own(p)' # Own(p)) => Own(q)' = Own(q)]_vars

C9_Witness ==
    /\ Len(client.headers) = 2
    /\ pc["t1"] = "done"
    /\ pc["t2"] = "done"
    /\ ret["t1"].kind = "fault"
    /\ ret["t1"].fault[1].HTTPStatus = 500
    /\ dest["t1"] = DestZero
    /\ http["t2"].status = 200
    /\ ret["t2"] = NoError
    /\ dest["t2"] = <<"v">>

\* C10: no step of a Call changes the client (url, auth, headers), whatever
\* the Call returns; and the Header of the request envelope holds the items
\* in an array of its own, not the client's.
C10_ClientUnchangedByCall ==
    /\ [](\A p \in Threads :
            (envelope[p] # None /\ envelope[p][1].Header # None) =>
               /\ envelope[p][1].Header[1].array # "client.headers"
               /\ \E n \in 1..Len(client.headers) :
                     envelope[p][1].Header[1].Items = SubSeq(client.headers, 1, n))
    /\ [][(\E p \in Threads : op'[p] = "Call" /\ Own(p)' # Own(p)) => client' = client]_vars

C10_Witness ==
    \E p \in Threads :
        /\ op[p] = "Call"
        /\ pc[p] = "done"
        /\ ret[p].kind = "fault"
        /\ envelope[p] # None
        /\ envelope[p][1].Header # None
        /\ Len(envelope[p][1].Header[1].Items) = 1
        /\ Len(client.headers) = 2
        /\ client.auth # None

(***************************************************************************)
(* C11.  AddHeader and the Calls around it.                                *)
(***************************************************************************)
IsPrefix(s, t) == Len(s) <= Len(t) /\ \A i \in 1..Len(s) : s[i] = t[i]

\* The Header a list of items must appear as: absent for the empty list,
\* otherwise the items in the order they were added.
Carries(header, items) ==
    /\ header = None <=> items = <<>>
    /\ header # None => header[1].Items = items

Exchanges(p) == Len(http[p].requests)

\* C12, as the claim states it: whatever the outcome of a Call, it has
\* issued exactly one HTTP exchange attempt.
C12_ExactlyOneExchange ==
    \A p \in Threads :
        (op[p] = "Call" /\ pc[p] = "done") => Exchanges(p) = 1

\* C12, amended: a Call never issues more than one HTTP exchange attempt;
\* it has issued exactly one from the moment the request is handed to the
\* transport, so for every outcome from a transport failure on (transport
\* failure, read failure, empty body, 401, decode failure, Fault, success),
\* and none when it returns because the request could not be serialized;
\* no other step than the handing over issues a request.
C12_AtMostOneExchange ==
    /\ [](\A p \in Threads :
            op[p] = "Call" =>
                /\ Exchanges(p) <= 1
                /\ pc[p] \in {"inflight", "readall", "unmarshal", "envelope",
                              "UnmarshalXML", "loop", "unmarshalled"} => Exchanges(p) = 1
                /\ pc[p] = "done" => (Exchanges(p) = 1 <=> ret[p].kind # "encode")
                /\ pc[p] = "done" => ret[p].kind \in {"encode", "transport", "read", "errBody",
                                                       "errUnauthorized", "status", "fault", "nil"})
    /\ [][\A p \in Threads :
            http'[p].requests # http[p].requests
                => (pc[p] = "send" /\ http[p].requests = <<>>) \/ pc[p] = "idle"]_vars

\* A Call whose exchange failed in the transport has returned with the one
\* request it issued.
C12_Witness ==
    /\ op["t1"] = "Call"
    /\ pc["t1"] = "done"
    /\ ret["t1"].kind = "transport"
    /\ Exchanges("t1") = 1

(***************************************************************************)
(* C13.  Cancellation.                                                     *)
(***************************************************************************)
\* The exchange of p is in flight: the request is being sent or the body of
\* the response is being read.
InFlight(p) == op[p] = "Call" /\ pc[p] \in {"inflight", "readall"}

\* C13: a Call whose context is cancelled while the exchange is in flight
\* (while the request is sent or the body is read) eventually returns an
\* error; the step that ends the exchange then is the abort: it returns the
\* wrapped error and no response is taken up.
C13_CancelledCallReturns ==
    /\ \A p \in {"t1"} :
          (InFlight(p) /\ args[p].ctx = "done")
              ~> (pc[p] = "done" /\ ret[p].kind \in {"transport", "read"})
    /\ [][\A p \in {"t1"} :
            (InFlight(p) /\ args[p].ctx = "done" /\ pc'[p] # pc[p])
                => /\ pc'[p] = "done"
                   /\ ret'[p].kind \in {"transport", "read"}
                   /\ http'[p] = http[p]
                   /\ dest'[p] = dest[p]]_vars

\* The context was cancelled while the body was being read, and Call
\* returned the error of the read.
C13_Witness ==
    /\ op["t1"] = "Call"
    /\ args["t1"].ctx = "done"
    /\ http["t1"].status # 0
    /\ pc["t1"] = "done"
    /\ ret["t1"].kind = "read"

(***************************************************************************)
(* C14.  Fault.Error.                                                      *)
(***************************************************************************)
\* The text the claim gives for a Fault: the parts in the order they appear.
ErrorParts(f) ==
    <<(IF f.Code # <<>> THEN f.Code \o <<":", " ">> ELSE <<>>),
      f.Text,
      (IF f.Detail # <<>> THEN <<" ", "(">> \o f.Detail \o <<")">> ELSE <<>>),
      (IF f.HTTPStatus # 0 THEN <<" ">> \o FormatInt(f.HTTPStatus) ELSE <<>>)>>

\* C14: Error of the nil Fault is "soap: <nil>"; of any other Fault it is
\* "soap: " followed by the code and ": " (only when there is a code), the
\* text, the detail in parentheses after a space (only when there is a
\* detail) and the status after a space (only when it is not zero); the
\* result does not depend on Actor, and the composed examples read as the
\* tests expect.
C14_FaultErrorFormat ==
    pure.stage = "text" =>
        /\ pure.fault = None => pure.text = <<"s", "o", "a", "p", ":", " ", "<", "n", "i", "l", ">">>
        /\ pure.fault # None =>
              LET f == pure.fault[1]
                  parts == ErrorParts(f)
              IN  /\ pure.text = <<"s", "o", "a", "p", ":", " ">>
                                   \o parts[1] \o parts[2] \o parts[3] \o parts[4]
                  /\ \A a \in Actors : Error(Some([f EXCEPT !.Actor = a])) = pure.text
                  /\ (f.Code = <<"c", "o", "d", "e">> /\ f.Text = <<"t", "e", "x", "t">>
                      /\ f.Detail = <<>> /\ f.HTTPStatus = 500)
                        => pure.text = <<"s", "o", "a", "p", ":", " ", "c", "o", "d", "e", ":", " ",
                                         "t", "e", "x", "t", " ", "5", "0", "0">>
                  /\ (f.Code = <<>> /\ f.Text = <<"t", "e", "x", "t">>
                      /\ f.Detail = <<"d", "e", "t", "a", "i", "l">> /\ f.HTTPStatus = 0)
                        => pure.text = <<"s", "o", "a", "p", ":", " ", "t", "e", "x", "t", " ", "(",
                                         "d", "e", "t", "a", "i", "l", ")">>

\* A Fault with an actor, a text and a status, without code and detail, has
\* been formatted.
C14_Witness ==
    /\ pure.stage = "text"
    /\ pure.elem = None
    /\ pure.fault # None
    /\ pure.fault[1].Actor # <<>>
    /\ pure.fault[1].Code = <<>>
    /\ pure.fault[1].Detail = <<>>
    /\ pure.fault[1].HTTPStatus = 500
    /\ pure.text = <<"s", "o", "a", "p", ":", " ", "t", "e", "x", "t", " ", "5", "0", "0">>

(***************************************************************************)
(* C15.  The string fields of a decoded Fault are trimmed.                 *)
(***************************************************************************)
\* field is raw without the white space around it: white space, field,
\* white space make up raw, and field neither starts nor ends with any.
Trimmed(raw, field) ==
    /\ \E i \in 0..Len(raw) :
          /\ i + Len(field) <= Len(raw)
          /\ \A k \in 1..i : raw[k] \in WhiteSpace
          /\ \A k \in 1..Len(field) : raw[i + k] = field[k]
          /\ \A k \in (i + Len(field) + 1)..Len(raw) : raw[k] \in WhiteSpace
    /\ field # <<>> => (field[1] \notin WhiteSpace /\ field[Len(field)] \notin WhiteSpace)

\* C15: every string field of a decoded Fault is the character data of its
\* element without the surrounding white space; it neither starts nor ends
\* with white space and trimming it again changes nothing; stamping and
\* formatting keep that, and a Fault with only a (padded) faultstring,
\* returned with status 500, reads "soap: <trimmed text> 500".
C15_FaultFieldsTrimmed ==
    (pure.stage \in {"decoded", "value", "text"} /\ pure.elem # None) =>
        LET se == pure.elem[1]
            f == pure.fault[1]
        IN  /\ Trimmed(se.faultcode, f.Code)
            /\ Trimmed(se.data, f.Text)
            /\ Trimmed(se.faultactor, f.Actor)
            /\ Trimmed(se.detail, f.Detail)
            /\ \A s \in {f.Code, f.Text, f.Actor, f.Detail} : TrimSpace(s) = s
            /\ (pure.stage = "text" /\ f.Code = <<>> /\ f.Detail = <<>> /\ f.HTTPStatus = 500)
                  => pure.text = <<"s", "o", "a", "p", ":", " ">> \o f.Text \o <<" ", "5", "0", "0">>
            /\ (pure.stage = "text" /\ f.HTTPStatus = 500
                /\ se = FaultElement(<<>>, <<Space, Space, "f", "a", "u", "l", "t", Space,
                                             "t", "e", "x", "t">>, <<>>, <<>>))
                  => pure.text = <<"s", "o", "a", "p", ":", " ", "f", "a", "u", "l", "t", " ",
                                   "t", "e", "x", "t", " ", "5", "0", "0">>

\* The Fault of soap_test.go:126, whose faultstring starts with spaces, was
\* decoded, stamped with 500 and formatted.
C15_Witness ==
    /\ pure.stage = "text"
    /\ pure.elem # None
    /\ pure.elem[1].data = <<Space, Space, "f", "a", "u", "l", "t", Space, "t", "e", "x", "t">>
    /\ pure.fault[1].Text = <<"f", "a", "u", "l", "t", Space, "t", "e", "x", "t">>
    /\ pure.fault[1].HTTPStatus = 500
    /\ pure.text = <<"s", "o", "a", "p", ":", " ", "f", "a", "u", "l", "t", " ",
                     "t", "e", "x", "t", " ", "5", "0", "0">>

(***************************************************************************)
(* C16.  Round trip.                                                       *)
(***************************************************************************)
\* The strings of a value hold only characters XML can carry.
Representable(v) == \A s \in {v.Attr1, v.Attr2} : \A i \in 1..Len(s) : s[i] # Ctrl

\* The fields of the request type.
Fields(v) == [Attr1 |-> v.Attr1, Attr2 |-> v.Attr2]

\* C16, as the claim states it: a request value that was serialized as the
\* Content of an Envelope and decoded through the Body decoder into a
\* destination of its type comes out equal to the original, with Fault
\* unset and without error.
C16_RoundTrip ==
    pure.stage = "decoded" =>
        /\ pure.dest = Fields(pure.value)
        /\ pure.fault = None
        /\ pure.err = ""

\* C16, amended: the round trip never fails and never sets Fault, and the
\* destination equals the original when the destination was zero-valued
\* before and the strings of the value hold only characters XML can carry.
\* (Otherwise: a field whose string is empty keeps what the destination
\* held, and a character XML cannot carry comes back as U+FFFD.)
C16_RoundTripOfRepresentable ==
    pure.stage = "decoded" =>
        /\ pure.fault = None
        /\ pure.err = ""
        /\ (Representable(pure.value) /\ pure.into = RequestZero)
              => pure.dest = Fields(pure.value)
        /\ \A n \in {"Attr1", "Attr2"} :
              pure.dest[n] = IF pure.value[n] = <<>> THEN pure.into[n]
                             ELSE [i \in 1..Len(pure.value[n]) |->
                                      IF pure.value[n][i] = Ctrl THEN Replacement
                                      ELSE pure.value[n][i]]

\* A value with characters that must be escaped, and with an empty string,
\* went through an envelope with a Header into a fresh destination and came
\* out equal.
C16_Witness ==
    /\ pure.stage = "decoded"
    /\ pure.value = Value("request", <<"a", "<", "b", "&">>, <<>>)
    /\ pure.header # None
    /\ pure.into = RequestZero
    /\ pure.bytes[2] = BodyStart
    /\ pure.bytes[3].attr1 = <<"a", "&lt;", "b", "&amp;">>
    /\ pure.dest = Fields(pure.value)
    /\ pure.fault = None
    /\ pure.err = ""

(***************************************************************************)
(* C17.  The request Call issues.                                          *)
(***************************************************************************)
\* C17: every request a Call has handed to the transport is a POST to the
\* client's URL whose body is the serialized request envelope, with the
\* Content-Type text/xml; charset="utf-8", with a SOAPAction header that is
\* always present and holds the action passed (empty when the action is
\* empty), with basic-auth credentials exactly when the client has them
\* (and then those), and with connection reuse disabled.
C17_RequestAsIssued ==
    \A p \in Threads :
        \A i \in 1..Len(http[p].requests) :
            LET req == http[p].requests[i]
            IN  /\ op[p] = "Call"
                /\ req.method = "POST"
                /\ req.url = client.url
                /\ envelope[p] # None
                /\ req.body = Encode(envelope[p][1]).bytes
                /\ req.body = http[p].buffer
                /\ Last(req.body) = EnvelopeEnd
                /\ req.contentType = "text/xml; charset=\"utf-8\""
                /\ req.soapAction # None
                /\ req.soapAction[1] = args[p].soapAction
                /\ req.basicAuth = None <=> client.auth = None
                /\ req.basicAuth = client.auth
                /\ req.close

\* A request with an empty action was issued by a client with credentials.
C17_Witness ==
    /\ Len(http["t1"].requests) = 1
    /\ args["t1"].soapAction = ""
    /\ http["t1"].requests[1].soapAction = Some("")
    /\ client.auth # None
    /\ http["t1"].requests[1].basicAuth = client.auth
    /\ http["t1"].requests[1].method = "POST"

(***************************************************************************)
(* C18.  Fault or Content: the decision.                                   *)
(***************************************************************************)
\* C18: the step of Body.UnmarshalXML that reads the first start-element of
\* the Body decodes it as a Fault exactly when its namespace is the
\* envelope's and its local name is Fault; any other name (Fault in another
\* namespace, another name in the envelope's) is decoded into the Content
\* and leaves the Body, so an unset Fault, as it is; a later start-element
\* decides nothing; and character data, wherever it stands, changes nothing
\* of the decoder's state.
C18_FaultDecidedByFullName ==
    [][\A p \in Threads :
          (pc[p] = "loop" /\ dec'[p].doc # dec[p].doc) =>
              LET t == Last(dec'[p].doc)
              IN  /\ (t.kind = "StartElement" /\ ~dec[p].consumed) =>
                        IF t.space = NsEnvelope /\ t.local = "Fault"
                        THEN /\ dec'[p].decoded = Append(dec[p].decoded, "Fault")
                             /\ respEnvelope'[p].Fault # None
                             /\ dest'[p] = dest[p]
                        ELSE /\ dec'[p].decoded = Append(dec[p].decoded, "Content")
                             /\ respEnvelope'[p] = respEnvelope[p]
                  /\ (t.kind = "StartElement" /\ dec[p].consumed) =>
                        /\ dec'[p].decoded = dec[p].decoded
                        /\ respEnvelope'[p] = respEnvelope[p]
                        /\ dest'[p] = dest[p]
                  /\ t.kind = "CharData" =>
                        /\ respEnvelope'[p] = respEnvelope[p]
                        /\ dest'[p] = dest[p]
                        /\ dec'[p].consumed = dec[p].consumed
                        /\ dec'[p].decoded = dec[p].decoded
                        /\ dec'[p].uerr = dec[p].uerr
                        /\ pc'[p] = "loop"]_vars

\* After character data, an element called Fault in the application's
\* namespace was decoded into the destination of a Call; Fault is unset.
C18_Witness ==
    /\ op["t1"] = "Call"
    /\ args["t1"].response = "any"
    /\ Len(dec["t1"].doc) = 3
    /\ dec["t1"].doc[2] = CharData
    /\ dec["t1"].doc[3].kind = "StartElement"
    /\ dec["t1"].doc[3].space = NsApp
    /\ dec["t1"].doc[3].local = "Fault"
    /\ dec["t1"].doc[3].sub = "ok"
    /\ dec["t1"].decoded = <<"Content">>
    /\ respEnvelope["t1"].Fault = None
    /\ dest["t1"] = dec["t1"].doc[3].data

(***************************************************************************)
(* C19.  The destination when Call returns a Fault or a screening error.   *)
(***************************************************************************)
\* C19, as the claim states it: when Call returns a Fault, errUnauthorized
\* or errBody, the variable the caller's response points to has not been
\* written; and a Call that decoded into the Content ends in success or in
\* the error of a failed decode, never in a Fault.
C19_DestinationUntouchedOnFault ==
    \A p \in Threads :
        (op[p] = "Call" /\ pc[p] = "done") =>
            /\ ret[p].kind \in {"fault", "errUnauthorized", "errBody"} => dest[p] = DestZero
            /\ (\E i \in 1..Len(dec[p].decoded) : dec[p].decoded[i] = "Content")
                  => ret[p].kind \in {"nil", "status"}

(***************************************************************************)
(* C20.  The status and the outcome.                                       *)
(***************************************************************************)
\* The Call of p has read a non-empty body.
ReadBody(p) == op[p] = "Call" /\ http[p].body \notin {"", "empty"}

\* C20: a Call that read a non-empty body returns success exactly when the
\* status is not 401, the envelope decoded without error and the Body holds
\* no Fault; with any other status than 401 in place of its own the same
\* response gives an outcome of the same class (success, Fault, decode
\* error), so a status of 500 does not prevent success and a status of 200
\* does not prevent a Fault.
C20_StatusOnlyMatters401 ==
    \A p \in Threads :
        (ReadBody(p) /\ pc[p] = "done") =>
            /\ ret[p] = NoError <=> /\ http[p].status # 401
                                    /\ dec[p].uerr = ""
                                    /\ respEnvelope[p].Fault = None
            /\ http[p].status = 401 => ret[p] = errUnauthorized
            /\ http[p].status # 401 =>
                  \A status \in {200, 404} :
                      LET other == CallAlone(client, args[p], status, http[p].body, dec[p].doc)
                      IN  /\ other.ret.kind = ret[p].kind
                          /\ other.dest = dest[p]
                          /\ ret[p].kind \in {"nil", "fault", "status"}

\* A Call answered with status 500 and an envelope that holds a response
\* and no Fault has returned nil, the response decoded.
C20_Witness ==
    /\ ReadBody("t1")
    /\ pc["t1"] = "done"
    /\ http["t1"].status = 500
    /\ args["t1"].response = "named"
    /\ dec["t1"].decoded = <<"Content">>
    /\ dest["t1"] # DestZero
    /\ ret["t1"] = NoError

====
